---------------------------- MODULE Spec2Model ----------------------------
(***************************************************************************)
(* Model of the document rendering pipeline of                             *)
(* src/server/services/pdf-service.ts (class PDFService):                  *)
(*   convertWordToPDF            - the coordinator (primary, then fallback)*)
(*   convertWordToPDFWithPuppeteer - the primary renderer                  *)
(*   convertWordToPDFAlternative - the fallback renderer (pdf-lib)         *)
(*   getHeaderTemplate / getFooterTemplate / drawHeader - the templates    *)
(*                                                                         *)
(* Strings are sequences of one-character strings, so that substring,      *)
(* toUpperCase, template interpolation and file-name formats are computed  *)
(* character by character.  Lengths on the page are in hundredths of a     *)
(* point (841.89pt = 84189).  Every await of the code is one action; the   *)
(* synchronous code that follows an await belongs to that await's action.  *)
(***************************************************************************)
EXTENDS Naturals, Integers, Sequences, FiniteSets, TLC

(***************************************************************************)
(* Bounds of the model                                                     *)
(***************************************************************************)
\* Date.now() takes the values 0..MaxClock
MaxClock == 2
\* clock ticks per calendar day (new Date() changes its day after this many)
TicksPerDay == 2
\* body lines of the longest extracted text beyond one full page
ExtraLines == 1

(***************************************************************************)
(* Strings                                                                 *)
(***************************************************************************)
Min(a, b) == IF a < b THEN a ELSE b

\* String.prototype.substring(0, n)
Substring0(s, n) == SubSeq(s, 1, Min(n, Len(s)))

\* a string of n copies of the character c
Repeat(c, n) == [i \in 1..n |-> c]

Digit(n) ==
  CASE n = 0 -> "0" [] n = 1 -> "1" [] n = 2 -> "2" [] n = 3 -> "3"
    [] n = 4 -> "4" [] n = 5 -> "5" [] n = 6 -> "6" [] n = 7 -> "7"
    [] n = 8 -> "8" [] n = 9 -> "9"

\* decimal rendering of a non-negative number inside a template literal
RECURSIVE NatToStr(_)
NatToStr(n) == IF n < 10 THEN <<Digit(n)>>
               ELSE NatToStr(n \div 10) \o <<Digit(n % 10)>>

Pad2(n) == IF n < 10 THEN <<"0">> \o NatToStr(n) ELSE NatToStr(n)

IsDigit(c) == c \in {"0", "1", "2", "3", "4", "5", "6", "7", "8", "9"}

UpperChar(c) ==
  CASE c = "a" -> "A" [] c = "b" -> "B" [] c = "c" -> "C" [] c = "d" -> "D"
    [] c = "e" -> "E" [] c = "f" -> "F" [] c = "g" -> "G" [] c = "h" -> "H"
    [] c = "i" -> "I" [] c = "j" -> "J" [] c = "k" -> "K" [] c = "l" -> "L"
    [] c = "m" -> "M" [] c = "n" -> "N" [] c = "o" -> "O" [] c = "p" -> "P"
    [] c = "q" -> "Q" [] c = "r" -> "R" [] c = "s" -> "S" [] c = "t" -> "T"
    [] c = "u" -> "U" [] c = "v" -> "V" [] c = "w" -> "W" [] c = "x" -> "X"
    [] c = "y" -> "Y" [] c = "z" -> "Z" [] OTHER -> c

\* String.prototype.toUpperCase
ToUpperCase(s) == [i \in 1..Len(s) |-> UpperChar(s[i])]

\* a || b on strings: the empty string, null and undefined are falsy
OrStr(a, b) == IF a # <<>> THEN a ELSE b

\* s contains t as a contiguous substring (String.prototype.includes)
Includes(s, t) ==
  \E i \in 1..(Len(s) + 1) :
     /\ i + Len(t) - 1 <= Len(s)
     /\ SubSeq(s, i, i + Len(t) - 1) = t

(***************************************************************************)
(* Numbers and dates of the document record                                *)
(***************************************************************************)
\* revisionNo values that are not numbers
RevNull == -1
RevUndefined == -2

\* `${document.revisionNo}`: the template literal's rendering
TemplateRev(rev) ==
  IF rev = RevNull THEN <<"n", "u", "l", "l">>
  ELSE IF rev = RevUndefined THEN <<"u", "n", "d", "e", "f", "i", "n", "e", "d">>
  ELSE NatToStr(rev)

\* `${document.revisionNo || 0}`: null, undefined and 0 are falsy
RevOrZero(rev) == IF rev \in {RevNull, RevUndefined, 0} THEN NatToStr(0) ELSE NatToStr(rev)

\* an absent (null) date column
NoDate == [d |-> 0, m |-> 0, y |-> 0]

\* new Date(): the calendar day of the clock value t
Today(t) == [d |-> 5 + (t \div TicksPerDay), m |-> 11, y |-> 2026]

\* Date.prototype.toLocaleDateString(locale)
ToLocaleDateString(date, locale) ==
  IF locale = "en-GB"
  THEN Pad2(date.d) \o <<"/">> \o Pad2(date.m) \o <<"/">> \o NatToStr(date.y)
  ELSE NatToStr(date.m) \o <<"/">> \o NatToStr(date.d) \o <<"/">> \o NatToStr(date.y)

\* the locales the process can run under (toLocaleDateString() without argument)
Locales == {"en-GB", "en-US"}

(***************************************************************************)
(* The inputs of a conversion: document records and control-copy stamps    *)
(***************************************************************************)
StrQcSop == <<"Q", "C", "-", "S", "O", "P", "-", "0", "0", "1">>
StrTagged == <<"A", "_", "v", "2", "_", "f", "a", "l", "l", "b", "a", "c", "k", "_">>
StrSop == <<"S", "O", "P">>
StrNeelikon == <<"N", "e", "e", "l", "i", "k", "o", "n">>
StrQA == <<"Q", "A">>
StrRao == <<"R", ".", " ", "R", "a", "o">>
StrIyer == <<"A", ".", " ", "I", "y", "e", "r">>
StrKhan == <<"S", ".", " ", "K", "h", "a", "n">>
StrSmith == <<"J", ".", " ", "S", "m", "i", "t", "h">>
StrApproved == <<"a", "p", "p", "r", "o", "v", "e", "d">>
StrPending == <<"p", "e", "n", "d", "i", "n", "g">>

\* Scenario A of the specification: every field populated
DocFull ==
  [docName |-> StrSop, docNumber |-> StrQcSop, issueNo |-> <<"0", "2">>,
   revisionNo |-> 2, dateOfIssue |-> [d |-> 3, m |-> 2, y |-> 2025],
   reviewDueDate |-> [d |-> 14, m |-> 12, y |-> 2026], status |-> StrApproved,
   departmentNames |-> <<StrQA>>, preparerName |-> StrRao, creatorFullName |-> <<>>,
   approverName |-> StrIyer, approverFullName |-> <<>>, issuerName |-> StrKhan,
   issuerFullName |-> <<>>, headerInfo |-> StrNeelikon, content |-> <<>>]

\* only the required fields; every optional column is null
DocMinimal ==
  [docName |-> StrSop, docNumber |-> StrQcSop, issueNo |-> <<>>,
   revisionNo |-> RevNull, dateOfIssue |-> NoDate, reviewDueDate |-> NoDate,
   status |-> StrPending, departmentNames |-> <<>>, preparerName |-> <<>>,
   creatorFullName |-> <<>>, approverName |-> <<>>, approverFullName |-> <<>>,
   issuerName |-> <<>>, issuerFullName |-> <<>>, headerInfo |-> <<>>,
   content |-> <<>>]

\* names longer than the fallback header's substring limits (60, 30, 70)
DocLong ==
  [docName |-> Repeat("n", 61), docNumber |-> Repeat("7", 31), issueNo |-> <<>>,
   revisionNo |-> 0, dateOfIssue |-> [d |-> 3, m |-> 2, y |-> 2025],
   reviewDueDate |-> NoDate, status |-> StrApproved, departmentNames |-> <<StrQA, StrSop>>,
   preparerName |-> <<>>, creatorFullName |-> StrRao, approverName |-> <<>>,
   approverFullName |-> StrIyer, issuerName |-> <<>>, issuerFullName |-> StrKhan,
   headerInfo |-> Repeat("h", 71), content |-> StrSop]

\* a document number that itself contains an engine tag; revisionNo undefined
DocTagged ==
  [docName |-> StrSop, docNumber |-> StrTagged, issueNo |-> <<"0", "2">>,
   revisionNo |-> RevUndefined, dateOfIssue |-> NoDate,
   reviewDueDate |-> [d |-> 14, m |-> 12, y |-> 2026], status |-> StrPending,
   departmentNames |-> <<>>, preparerName |-> StrRao, creatorFullName |-> StrIyer,
   approverName |-> <<>>, approverFullName |-> <<>>, issuerName |-> <<>>,
   issuerFullName |-> <<>>, headerInfo |-> StrNeelikon, content |-> <<>>]

\* a title with a character the standard fonts cannot encode (the rupee sign)
DocRupee ==
  [docName |-> <<"F", "e", "e", " ", "₹">>, docNumber |-> StrQcSop, issueNo |-> <<>>,
   revisionNo |-> 1, dateOfIssue |-> [d |-> 3, m |-> 2, y |-> 2025],
   reviewDueDate |-> NoDate, status |-> StrApproved, departmentNames |-> <<>>,
   preparerName |-> <<>>, creatorFullName |-> <<>>, approverName |-> <<>>,
   approverFullName |-> <<>>, issuerName |-> <<>>, issuerFullName |-> <<>>,
   headerInfo |-> <<>>, content |-> <<>>]

\* a title with a Latin-1 letter, and a document number that is a relative path
DocHostile ==
  [docName |-> <<"C", "a", "f", "é">>,
   docNumber |-> <<".", ".", "/", "u", "p", "l", "o", "a", "d", "s", "/", "X">>,
   issueNo |-> <<>>, revisionNo |-> 1, dateOfIssue |-> NoDate,
   reviewDueDate |-> NoDate, status |-> StrPending, departmentNames |-> <<>>,
   preparerName |-> <<>>, creatorFullName |-> <<>>, approverName |-> <<>>,
   approverFullName |-> <<>>, issuerName |-> <<>>, issuerFullName |-> <<>>,
   headerInfo |-> <<>>, content |-> <<>>]

Documents == {DocFull, DocMinimal, DocLong, DocTagged, DocRupee, DocHostile}

\* controlCopyInfo?: absent, or the stamp of Scenario D
NoControlCopy == [present |-> FALSE, userFullName |-> <<>>]
ControlCopies == {NoControlCopy, [present |-> TRUE, userFullName |-> StrSmith]}

(***************************************************************************)
(* Header/footer templates.  A template is the sequence of the fields it   *)
(* renders, each a record [key, value]; key names the regulated field.     *)
(***************************************************************************)
Field(k, v) == [key |-> k, value |-> v]

CompanyBanner == <<"N", "E", "E", "L", "I", "K", "O", "N", " ", "F", "O", "O", "D", " ", "D", "Y", "E", "S", " ", "A", "N", "D", " ", "C", "H", "E", "M", "I", "C", "A", "L", "S", " ", "L", "I", "M", "I", "T", "E", "D">>
DefaultDept == <<"M", "a", "n", "a", "g", "e", "m", "e", "n", "t", " ", "R", "e", "p", "r", "e", "s", "e", "n", "t", "a", "t", "i", "v", "e">>
DefaultPreparer == <<"A", "s", "s", "t", ".", " ", "M", "R">>
DefaultApprover == <<"H", "O", "D">>
DefaultIssuer == <<"M", "a", "n", "a", "g", "e", "m", "e", "n", "t", " ", "R", "e", "p", "r", "e", "s", "e", "n", "t", "a", "t", "i", "v", "e", " ", "{", " ", "M", "R", " ", "}">>
StrNA == <<"N", "/", "A">>
StampMarker == <<"C", "O", "N", "T", "R", "O", "L", "L", "E", "D", " ", "C", "O", "P", "Y">>

\* variant: an absent dateOfIssue is rendered as the clock value itself
getHeaderTemplate_Clock(document, t) ==
  LET dateOfIssue == IF document.dateOfIssue # NoDate
                     THEN ToLocaleDateString(document.dateOfIssue, "en-GB")
                     ELSE NatToStr(t)
      revDate == IF document.dateOfIssue # NoDate
                 THEN ToLocaleDateString(document.dateOfIssue, "en-GB")
                 ELSE NatToStr(t)
      dueRevDate == IF document.reviewDueDate # NoDate
                    THEN ToLocaleDateString(document.reviewDueDate, "en-GB")
                    ELSE StrNA
  IN << Field("company", CompanyBanner),
        Field("issueNo", OrStr(document.issueNo, <<"0", "1">>)),
        Field("dateOfIssue", dateOfIssue),
        Field("revisionNo", RevOrZero(document.revisionNo)),
        Field("dateOfRevision", revDate),
        Field("dueDate", dueRevDate),
        Field("department", IF Len(document.departmentNames) > 0
                               /\ document.departmentNames[1] # <<>>
                            THEN document.departmentNames[1] ELSE DefaultDept),
        Field("title", document.docName),
        Field("docNumber", document.docNumber) >>

\* getHeaderTemplate(document), evaluated at clock value t
getHeaderTemplate(document, t) ==
  LET dateOfIssue == IF document.dateOfIssue # NoDate
                     THEN ToLocaleDateString(document.dateOfIssue, "en-GB")
                     ELSE ToLocaleDateString(Today(t), "en-GB")
      revDate == IF document.dateOfIssue # NoDate
                 THEN ToLocaleDateString(document.dateOfIssue, "en-GB")
                 ELSE ToLocaleDateString(Today(t), "en-GB")
      dueRevDate == IF document.reviewDueDate # NoDate
                    THEN ToLocaleDateString(document.reviewDueDate, "en-GB")
                    ELSE StrNA
  IN << Field("company", CompanyBanner),
        Field("issueNo", OrStr(document.issueNo, <<"0", "1">>)),
        Field("dateOfIssue", dateOfIssue),
        Field("revisionNo", RevOrZero(document.revisionNo)),
        Field("dateOfRevision", revDate),
        Field("dueDate", dueRevDate),
        Field("department", IF Len(document.departmentNames) > 0
                               /\ document.departmentNames[1] # <<>>
                            THEN document.departmentNames[1] ELSE DefaultDept),
        Field("title", document.docName),
        Field("docNumber", document.docNumber) >>

\* getFooterTemplate(document, controlCopyInfo)
getFooterTemplate(document, controlCopyInfo) ==
  LET preparer == OrStr(document.preparerName, OrStr(document.creatorFullName, DefaultPreparer))
      approver == OrStr(document.approverName, OrStr(document.approverFullName, DefaultApprover))
      issuer == OrStr(document.issuerName, OrStr(document.issuerFullName, DefaultIssuer))
      status == ToUpperCase(document.status)
  IN << Field("preparedBy", preparer), Field("approvedBy", approver),
        Field("issuedBy", issuer), Field("status", status) >>
     \o (IF controlCopyInfo.present
         THEN << Field("stamp", StampMarker), Field("printedBy", controlCopyInfo.userFullName) >>
         ELSE << >>)

\* variant: an absent reviewDueDate is rendered as the day of evaluation
drawHeader_DueToday(document, t, locale) ==
  LET companyHeader == ToUpperCase(OrStr(document.headerInfo, <<>>))
      dateOfIssue == IF document.dateOfIssue # NoDate
                     THEN ToLocaleDateString(document.dateOfIssue, locale)
                     ELSE ToLocaleDateString(Today(t), locale)
      dueDate == IF document.reviewDueDate # NoDate
                 THEN ToLocaleDateString(document.reviewDueDate, locale)
                 ELSE ToLocaleDateString(Today(t), locale)
  IN << Field("title", Substring0(document.docName, 60)),
        Field("docNumber", Substring0(document.docNumber, 30)),
        Field("company", Substring0(companyHeader, 70)),
        Field("issueNo", OrStr(document.issueNo, <<"0", "1">>)),
        Field("revisionNo", RevOrZero(document.revisionNo)),
        Field("dateOfIssue", dateOfIssue),
        Field("dueDate", dueDate),
        Field("page", <<"1", " ", "o", "f", " ", "1">>) >>

\* drawHeader(p) of the fallback renderer: the texts it draws on a page
drawHeader(document, t, locale) ==
  LET companyHeader == ToUpperCase(OrStr(document.headerInfo, <<>>))
      dateOfIssue == IF document.dateOfIssue # NoDate
                     THEN ToLocaleDateString(document.dateOfIssue, locale)
                     ELSE ToLocaleDateString(Today(t), locale)
      dueDate == IF document.reviewDueDate # NoDate
                 THEN ToLocaleDateString(document.reviewDueDate, locale)
                 ELSE StrNA
  IN << Field("title", Substring0(document.docName, 60)),
        Field("docNumber", Substring0(document.docNumber, 30)),
        Field("company", Substring0(companyHeader, 70)),
        Field("issueNo", OrStr(document.issueNo, <<"0", "1">>)),
        Field("revisionNo", RevOrZero(document.revisionNo)),
        Field("dateOfIssue", dateOfIssue),
        Field("dueDate", dueDate),
        Field("page", <<"1", " ", "o", "f", " ", "1">>) >>

(***************************************************************************)
(* The source document: the text mammoth extracts from it, as its lines    *)
(* (the pieces content.split('\n') yields)                                 *)
(***************************************************************************)
\* page geometry of the fallback renderer, in hundredths of a point
PageHeight == 84189
HeaderDrop == 17000
BreakBelow == 15000
LineStep == 1500

\* body lines that fit on one fallback page
LinesPerPage == ((PageHeight - HeaderDrop - BreakBelow) \div LineStep) + 1

TextEmpty == << >>
TextShort == << StrSop, <<" ", " ">>, <<"r", "é", "s", "\t", "u">>, Repeat("w", 96) >>
TextLong == [i \in 1..(LinesPerPage + ExtraLines) |-> NatToStr(i)]
\* a text that fills one page exactly
TextPage == [i \in 1..LinesPerPage |-> NatToStr(i)]
Texts == {TextEmpty, TextShort, TextLong, TextPage}

\* characters of the model's alphabet outside \x20-\x7E
NonAscii == {"é", "\t", "₹"}

\* characters of the model's alphabet that the WinAnsi encoding of the
\* standard fonts (Helvetica, HelveticaBold) does not have
NotInWinAnsi == {"₹"}

\* page.drawText(text, ...) encodes text with the font and throws on a
\* character the font cannot encode
CanEncode(text) == \A i \in 1..Len(text) : text[i] \notin NotInWinAnsi

\* l.trim().length > 0
Whitespace == {" ", "\t"}
IsBlank(l) == \A i \in 1..Len(l) : l[i] \in Whitespace

\* variant: the blank lines are kept
NonBlankLines_KeepBlank(content) == SelectSeq(content, LAMBDA l : TRUE)

\* content.split('\n').filter(l => l.trim().length > 0)
NonBlankLines(content) == SelectSeq(content, LAMBDA l : ~IsBlank(l))

\* line.substring(0, 95).replace(/[^\x20-\x7E]/g, " ")
CleanLine(line) ==
  LET cut == Substring0(line, 95)
  IN [i \in 1..Len(cut) |-> IF cut[i] \in NonAscii THEN " " ELSE cut[i]]

\* pdfDoc.addPage([595.28, 841.89]) followed by drawHeader(page); order is the
\* sequence of drawing calls the page has received
NewPage(header) ==
  [header |-> <<header>>, body |-> << >>, order |-> <<"header">>]

\* variant: the page break is taken only when the cursor has left the page
DrawLine_LateBreak(st, line, header) ==
  LET brk == st.y < 0
      pages1 == IF brk THEN Append(st.pages, NewPage(header)) ELSE st.pages
      y1 == IF brk THEN PageHeight - HeaderDrop ELSE st.y
      n == Len(pages1)
      drawn == [text |-> CleanLine(line), y |-> y1]
  IN [pages |-> [pages1 EXCEPT ![n].body = Append(@, drawn),
                               ![n].order = Append(@, "line")],
      y |-> y1 - LineStep]

\* one iteration of the for loop, from the loop state st = [pages, y]
DrawLine(st, line, header) ==
  LET brk == st.y < BreakBelow
      pages1 == IF brk THEN Append(st.pages, NewPage(header)) ELSE st.pages
      y1 == IF brk THEN PageHeight - HeaderDrop ELSE st.y
      n == Len(pages1)
      drawn == [text |-> CleanLine(line), y |-> y1]
  IN [pages |-> [pages1 EXCEPT ![n].body = Append(@, drawn),
                               ![n].order = Append(@, "line")],
      y |-> y1 - LineStep]

\* the loop state after the for loop has gone through lines in order, from
\* st0; the sequence is taken by halves, the second half entered with the
\* state mid the first half leaves
RECURSIVE LoopState(_, _, _)
LoopState(lines, st0, header) ==
  IF lines = << >> THEN st0
  ELSE IF Len(lines) = 1 THEN DrawLine(st0, lines[1], header)
  ELSE LET half == Len(lines) \div 2
       IN CHOOSE st \in
            { LoopState(SubSeq(lines, half + 1, Len(lines)), mid, header) :
                mid \in {LoopState(SubSeq(lines, 1, half), st0, header)} } : TRUE

\* the for loop over the lines, entered with the pages so far and the cursor y
LayoutLines(lines, pages, y, header) ==
  LoopState(lines, [pages |-> pages, y |-> y], header).pages

\* no drawText of the composition throws: the header texts as they are, the
\* body lines after cleaning
Drawable(document, content, t, locale) ==
  LET header == drawHeader(document, t, locale)
      lines == NonBlankLines(content)
  IN /\ \A i \in 1..Len(header) : CanEncode(header[i].value)
     /\ \A i \in 1..Len(lines) : CanEncode(CleanLine(lines[i]))

\* the pages the fallback renderer composes for a document and a text
FallbackPages(document, content, t, locale) ==
  LET header == drawHeader(document, t, locale)
  IN LayoutLines(NonBlankLines(content), <<NewPage(header)>>,
                 PageHeight - HeaderDrop, header)

(***************************************************************************)
(* Artifact names                                                          *)
(***************************************************************************)
TagFinal == <<"_", "f", "i", "n", "a", "l", "_">>
TagFallback == <<"_", "f", "a", "l", "l", "b", "a", "c", "k", "_">>
ExtPdf == <<".", "p", "d", "f">>

\* `${document.docNumber}_v${document.revisionNo}_final_${Date.now()}.pdf`
PrimaryFileName(document, t) ==
  document.docNumber \o <<"_", "v">> \o TemplateRev(document.revisionNo)
    \o TagFinal \o NatToStr(t) \o ExtPdf

\* variant: the fallback stage names its file with the primary stage's tag
FallbackFileName_FinalTag(document, t) ==
  document.docNumber \o <<"_", "v">> \o TemplateRev(document.revisionNo)
    \o TagFinal \o NatToStr(t) \o ExtPdf

\* `${document.docNumber}_v${document.revisionNo}_fallback_${Date.now()}.pdf`
FallbackFileName(document, t) ==
  document.docNumber \o <<"_", "v">> \o TemplateRev(document.revisionNo)
    \o TagFallback \o NatToStr(t) \o ExtPdf

(***************************************************************************)
(* Paths                                                                   *)
(***************************************************************************)
\* process.cwd(), an absolute path
cwd == <<"/", "a", "p", "p">>

\* the k-th smallest element of the set S of numbers
Nth(S, k) == CHOOSE x \in S : Cardinality({y \in S : y < x}) = k - 1

\* the segments of s between its separators
Segments(s) ==
  LET seps == {0} \cup {i \in 1..Len(s) : s[i] = "/"} \cup {Len(s) + 1}
  IN [k \in 1..(Cardinality(seps) - 1) |->
        SubSeq(s, Nth(seps, k) + 1, Nth(seps, k + 1) - 1)]

\* path.normalize on the segments of an absolute path: empty and "."
\* segments are dropped, ".." drops the segment before it (none at the root)
RECURSIVE Resolve(_, _)
Resolve(segs, acc) ==
  IF segs = << >> THEN acc
  ELSE LET seg == Head(segs)
           acc1 == IF seg = << >> \/ seg = <<".">> THEN acc
                   ELSE IF seg = <<".", ".">>
                        THEN SubSeq(acc, 1, Len(acc) - 1)
                        ELSE Append(acc, seg)
       IN Resolve(Tail(segs), acc1)

\* the absolute path with the given segments
RECURSIVE JoinSegments(_)
JoinSegments(segs) ==
  IF segs = << >> THEN <<"/">>
  ELSE IF Len(segs) = 1 THEN <<"/">> \o segs[1]
  ELSE JoinSegments(SubSeq(segs, 1, Len(segs) - 1)) \o <<"/">> \o segs[Len(segs)]

\* path.join(dir, name) for an absolute dir: joined with a separator, then
\* normalized
PathJoin(dir, name) ==
  CHOOSE p \in { JoinSegments(Resolve(Segments(joined), << >>)) :
                   joined \in {dir \o <<"/">> \o name} } : TRUE

\* path.dirname of an absolute, normalized path
Dirname(p) ==
  CHOOSE d \in { JoinSegments(SubSeq(segs, 1, Len(segs) - 1)) :
                   segs \in {Resolve(Segments(p), << >>)} } : TRUE

\* this.uploadsDir = path.join(process.cwd(), 'uploads')
uploadsDir == PathJoin(cwd, <<"u", "p", "l", "o", "a", "d", "s">>)
\* this.pdfsDir = path.join(process.cwd(), 'pdfs')
pdfsDir == PathJoin(cwd, <<"p", "d", "f", "s">>)

(***************************************************************************)
(* State                                                                   *)
(***************************************************************************)
VARIABLES
  pc,               \* where the call of convertWordToPDF stands
  document,         \* argument: the document record
  controlCopyInfo,  \* argument: the optional control-copy stamp
  source,           \* the text of the file at wordFilePath
  locale,           \* the default locale of the process
  now,              \* Date.now()
  pdfsDirExists,    \* whether this.pdfsDir exists on disk
  browser,          \* the primary stage's `browser`: none, open, closed, closeFailed
  pdfPath,          \* the primary stage's pdfPath, once computed
  templates,        \* the primary stage's headerHtml and footerHtml, once computed
  outcome,          \* the primary stage's pending completion, kept across finally
  err,              \* the coordinator's catch parameter: what the primary stage threw
  fallbackErr,      \* the fallback stage's catch parameter
  files,            \* the files in this.pdfsDir
  result,           \* what the caller of convertWordToPDF received
  primaryAttempts,  \* calls of convertWordToPDFWithPuppeteer
  fallbackAttempts, \* calls of convertWordToPDFAlternative
  extractions,      \* stages that started reading and converting the source
  pages,            \* the pages of the fallback renderer's pdfDoc
  fallbackPath,     \* the fallback stage's pdfPath, once computed
  log,              \* console output
  calls             \* the calls of convertWordToPDF running side by side

vars == <<pc, document, controlCopyInfo, source, locale, now, pdfsDirExists,
          browser, pdfPath, templates, outcome, err, fallbackErr, files, result,
          primaryAttempts, fallbackAttempts, extractions, pages, fallbackPath, log,
          calls>>

inputs == <<document, controlCopyInfo, source, locale>>
counters == <<primaryAttempts, fallbackAttempts, extractions>>
primaryLocals == <<browser, pdfPath, templates, outcome>>
fallbackLocals == <<pages, fallbackPath>>
errors == <<err, fallbackErr>>

NoError == [step |-> "none", message |-> << >>]
\* the Error a failing library call rejects with
ErrorAt(step) == [step |-> step, message |-> <<step, " failed">>]

NoOutcome == [kind |-> "none", path |-> << >>, error |-> NoError]
Returned(p) == [kind |-> "return", path |-> p, error |-> NoError]
Thrown(e) == [kind |-> "throw", path |-> << >>, error |-> e]

NoTemplates == [header |-> << >>, footer |-> << >>]

NoResult == [kind |-> "none", path |-> << >>, error |-> NoError]

\* a file of the output directory; complete = all its bytes were written
PdfFile(name, engine, complete, header, footer, pgs) ==
  [name |-> name, engine |-> engine, complete |-> complete,
   header |-> header, footer |-> footer, pages |-> pgs]

\* fs.writeFile(path, data): creates or replaces the file at path
WriteFile(fs, f) == {g \in fs : g.name # f.name} \cup {f}

\* the directories on disk: the root and the working directory, and the two
\* directories ensureDirectories creates together
Directories ==
  {<<"/">>, cwd} \cup (IF pdfsDirExists THEN {uploadsDir, pdfsDir} ELSE {})

\* fs.writeFile(p, ...) can create the file: its directory exists
CanWrite(p) == Dirname(p) \in Directories

\* calls of convertWordToPDF that run side by side in the one process
NumCalls == 2
Calls == 1..NumCalls

\* a call that has not started
IdleCall == [pc |-> "Start", path |-> << >>, result |-> NoResult]

Init ==
  /\ pc = "Start"
  /\ document \in Documents
  /\ controlCopyInfo \in ControlCopies
  /\ source \in Texts
  /\ locale \in Locales
  /\ now = 0
  /\ pdfsDirExists \in BOOLEAN
  /\ browser = "none"
  /\ pdfPath = << >>
  /\ templates = NoTemplates
  /\ outcome = NoOutcome
  /\ err = NoError
  /\ fallbackErr = NoError
  /\ files = {}
  /\ result = NoResult
  /\ primaryAttempts = 0
  /\ fallbackAttempts = 0
  /\ extractions = 0
  /\ pages = << >>
  /\ fallbackPath = << >>
  /\ log = << >>
  /\ calls = [c \in Calls |-> IdleCall]

(***************************************************************************)
(* Environment                                                             *)
(***************************************************************************)
\* time passes between two awaits
Tick ==
  /\ now < MaxClock
  /\ pc # "Done"
  /\ now' = now + 1
  /\ UNCHANGED <<calls, pc, inputs, pdfsDirExists, primaryLocals, errors, files,
                 result, counters, fallbackLocals, log>>

\* initialize(): ensureDirectories(); mkdir is recursive, so a second call
\* changes nothing and is left out
initialize ==
  /\ ~pdfsDirExists
  /\ pdfsDirExists' = TRUE
  /\ UNCHANGED <<calls, pc, inputs, now, primaryLocals, errors, files, result,
                 counters, fallbackLocals, log>>

(***************************************************************************)
(* convertWordToPDF: the coordinator                                       *)
(***************************************************************************)
\* the call enters the try block and calls the primary stage
convertWordToPDF ==
  /\ pc = "Start"
  /\ pc' = "P_access"
  /\ primaryAttempts' = primaryAttempts + 1
  /\ extractions' = extractions + 1
  /\ log' = Append(log, <<"[PDF] Attempting Puppeteer PDF for: ">> \o document.docNumber)
  /\ UNCHANGED <<calls, inputs, now, pdfsDirExists, primaryLocals, errors, files,
                 result, fallbackAttempts, fallbackLocals>>

(***************************************************************************)
(* convertWordToPDFWithPuppeteer: the primary stage                        *)
(***************************************************************************)
\* an awaited call of the try block at position `at`: it resolves and the
\* stage moves to `next`, or it rejects and control passes to finally
PrimaryStep(at, next) ==
  /\ pc = at
  /\ \/ /\ pc' = next
        /\ UNCHANGED outcome
     \/ /\ pc' = "P_finally"
        /\ outcome' = Thrown(ErrorAt(at))
  /\ UNCHANGED <<calls, inputs, now, pdfsDirExists, browser, pdfPath, templates,
                 errors, files, result, counters, fallbackLocals, log>>

\* await fs.access(wordFilePath)
FsAccess == PrimaryStep("P_access", "P_readFile")

\* await fs.readFile(wordFilePath)
PrimaryReadFile == PrimaryStep("P_readFile", "P_convertToHtml")

\* await mammoth.convertToHtml(...); then wrapWithHeavyDutyTheme
ConvertToHtml == PrimaryStep("P_convertToHtml", "P_launch")

\* browser = await puppeteer.launch(...)
PuppeteerLaunch ==
  /\ pc = "P_launch"
  /\ \/ /\ pc' = "P_newPage"
        /\ browser' = "open"
        /\ UNCHANGED outcome
     \/ /\ pc' = "P_finally"
        /\ outcome' = Thrown(ErrorAt("P_launch"))
        /\ UNCHANGED browser
  /\ UNCHANGED <<calls, inputs, now, pdfsDirExists, pdfPath, templates, errors, files,
                 result, counters, fallbackLocals, log>>

\* await browser.newPage()
BrowserNewPage == PrimaryStep("P_newPage", "P_setContent")

\* variant: setContent is called without a timeout, and a page that never
\* becomes idle leaves the promise pending
PageSetContent_NoTimeout ==
  \/ PrimaryStep("P_setContent", "P_evaluate")
  \/ /\ pc = "P_setContent"
     /\ pc' = "P_pending"
     /\ UNCHANGED <<calls, inputs, now, pdfsDirExists, primaryLocals, errors, files,
                    result, counters, fallbackLocals, log>>

\* await page.setContent(fullHtml, {waitUntil: 'networkidle0', timeout: 30000}):
\* the promise resolves when the page is idle and rejects at the timeout
PageSetContent == PrimaryStep("P_setContent", "P_evaluate")

\* await page.evaluate(...); then pdfFileName, pdfPath, headerHtml and
\* footerHtml are computed and page.pdf is called
PageEvaluate ==
  /\ pc = "P_evaluate"
  /\ \/ /\ pc' = "P_pdf"
        /\ pdfPath' = PathJoin(pdfsDir, PrimaryFileName(document, now))
        /\ templates' = [header |-> getHeaderTemplate(document, now),
                         footer |-> getFooterTemplate(document, controlCopyInfo)]
        /\ UNCHANGED outcome
     \/ /\ pc' = "P_finally"
        /\ outcome' = Thrown(ErrorAt("P_evaluate"))
        /\ UNCHANGED <<pdfPath, templates>>
  /\ UNCHANGED <<calls, inputs, now, pdfsDirExists, browser, errors, files, result,
                 counters, fallbackLocals, log>>

\* const pdfBuffer = await page.pdf({... headerTemplate, footerTemplate ...})
PagePdf == PrimaryStep("P_pdf", "P_writeFile")

\* await fs.writeFile(pdfPath, pdfBuffer); return pdfPath.
\* The write needs the directory; a write that fails can leave the file
\* created with part of its bytes.
PrimaryWriteFile ==
  /\ pc = "P_writeFile"
  /\ pc' = "P_finally"
  /\ \/ /\ CanWrite(pdfPath)
        /\ files' = WriteFile(files, PdfFile(pdfPath, "puppeteer", TRUE,
                                             templates.header, templates.footer, << >>))
        /\ outcome' = Returned(pdfPath)
     \/ /\ outcome' = Thrown(ErrorAt("P_writeFile"))
        /\ \/ UNCHANGED files
           \/ /\ CanWrite(pdfPath)
              /\ files' = WriteFile(files, PdfFile(pdfPath, "puppeteer", FALSE,
                                                   templates.header, templates.footer, << >>))
  /\ UNCHANGED <<calls, inputs, now, pdfsDirExists, browser, pdfPath, templates,
                 errors, result, counters, fallbackLocals, log>>

\* variant: an extraction error of the primary stage ends the call at once
Complete_AbortOnExtraction(o) ==
  IF o.kind = "return"
  THEN /\ pc' = "Done"
       /\ result' = [kind |-> "path", path |-> o.path, error |-> NoError]
       /\ UNCHANGED err
  ELSE IF o.error.step \in {"P_access", "P_readFile", "P_convertToHtml"}
  THEN /\ pc' = "Done"
       /\ err' = o.error
       /\ result' = [kind |-> "error", path |-> << >>, error |-> o.error]
  ELSE /\ pc' = "Catch"
       /\ err' = o.error
       /\ UNCHANGED result

\* the completion of the primary stage reaches the coordinator: a returned
\* path ends the call, a thrown error enters the coordinator's catch clause
Complete(o) ==
  IF o.kind = "return"
  THEN /\ pc' = "Done"
       /\ result' = [kind |-> "path", path |-> o.path, error |-> NoError]
       /\ UNCHANGED err
  ELSE /\ pc' = "Catch"
       /\ err' = o.error
       /\ UNCHANGED result

\* variant: close() is called after the try block returned, not in a finally
PrimaryFinally_CloseOnReturnOnly ==
  /\ pc = "P_finally"
  /\ IF browser = "open" /\ outcome.kind = "return"
     THEN \/ /\ browser' = "closed"
             /\ Complete(outcome)
          \/ /\ browser' = "closeFailed"
             /\ Complete(Thrown(ErrorAt("browser.close")))
     ELSE /\ UNCHANGED browser
          /\ Complete(outcome)
  /\ UNCHANGED <<calls, inputs, now, pdfsDirExists, pdfPath, templates, outcome,
                 fallbackErr, files, counters, fallbackLocals, log>>

\* finally { if (browser) await browser.close(); }
\* an error thrown by close() replaces the pending completion of the try block
\* (outcome keeps the completion of the try block itself)
PrimaryFinally ==
  /\ pc = "P_finally"
  /\ IF browser = "open"
     THEN \/ /\ browser' = "closed"
             /\ Complete(outcome)
          \/ /\ browser' = "closeFailed"
             /\ Complete(Thrown(ErrorAt("browser.close")))
     ELSE /\ UNCHANGED browser
          /\ Complete(outcome)
  /\ UNCHANGED <<calls, inputs, now, pdfsDirExists, pdfPath, templates, outcome,
                 fallbackErr, files, counters, fallbackLocals, log>>

\* variant: the catch clause calls the primary stage again
CatchPrimary_Retry ==
  /\ pc = "Catch"
  /\ log' = Append(log, <<"[PDF] Puppeteer failed: ">> \o err.message)
  /\ pc' = "P_access"
  /\ primaryAttempts' = primaryAttempts + 1
  /\ extractions' = extractions + 1
  /\ UNCHANGED <<calls, inputs, now, pdfsDirExists, primaryLocals, errors, files,
                 result, fallbackAttempts, fallbackLocals>>

\* variant: the catch clause rethrows filesystem errors of the primary stage
CatchPrimary_RethrowWriteError ==
  /\ pc = "Catch"
  /\ log' = Append(log, <<"[PDF] Puppeteer failed: ">> \o err.message
                          \o <<". Switching to Professional Fallback...">>)
  /\ IF err.step = "P_writeFile"
     THEN /\ pc' = "Done"
          /\ result' = [kind |-> "error", path |-> << >>, error |-> err]
          /\ UNCHANGED fallbackAttempts
     ELSE /\ pc' = "F_import"
          /\ fallbackAttempts' = fallbackAttempts + 1
          /\ UNCHANGED result
  /\ UNCHANGED <<calls, inputs, now, pdfsDirExists, primaryLocals, errors, files,
                 primaryAttempts, extractions, fallbackLocals>>

\* catch (err) { console.error(...); return await this.convertWordToPDFAlternative(...) }
CatchPrimary ==
  /\ pc = "Catch"
  /\ log' = Append(log, <<"[PDF] Puppeteer failed: ">> \o err.message
                          \o <<". Switching to Professional Fallback...">>)
  /\ pc' = "F_import"
  /\ fallbackAttempts' = fallbackAttempts + 1
  /\ UNCHANGED <<calls, inputs, now, pdfsDirExists, primaryLocals, errors, files,
                 result, primaryAttempts, extractions, fallbackLocals>>

(***************************************************************************)
(* convertWordToPDFAlternative: the fallback stage                         *)
(***************************************************************************)
\* an awaited call of the try block at position `at`: it resolves and the
\* stage moves to `next`, or it rejects and control passes to the catch clause
FallbackStep(at, next) ==
  /\ pc = at
  /\ \/ /\ pc' = next
        /\ UNCHANGED fallbackErr
     \/ /\ pc' = "F_catch"
        /\ fallbackErr' = ErrorAt(at)
  /\ UNCHANGED <<calls, inputs, now, pdfsDirExists, primaryLocals, err, files,
                 result, primaryAttempts, fallbackAttempts, fallbackLocals, log>>

\* await import('pdf-lib'); then fs.readFile(wordFilePath) is called
ImportPdfLib ==
  /\ FallbackStep("F_import", "F_readFile")
  /\ extractions' = IF pc' = "F_readFile" THEN extractions + 1 ELSE extractions

\* await fs.readFile(wordFilePath)
FallbackReadFile ==
  /\ FallbackStep("F_readFile", "F_extractRawText")
  /\ UNCHANGED extractions

\* await mammoth.extractRawText({buffer})
ExtractRawText ==
  /\ FallbackStep("F_extractRawText", "F_create")
  /\ UNCHANGED extractions

\* await PDFDocument.create()
PDFDocumentCreate ==
  /\ FallbackStep("F_create", "F_embedFont")
  /\ UNCHANGED extractions

\* await pdfDoc.embedFont(StandardFonts.Helvetica)
EmbedFont ==
  /\ FallbackStep("F_embedFont", "F_embedBold")
  /\ UNCHANGED extractions

\* await pdfDoc.embedFont(StandardFonts.HelveticaBold); then the pages are
\* composed, pdfFileName and pdfPath are computed and pdfDoc.save() is called;
\* a drawText that throws ends the composition in the catch clause
EmbedBoldFont ==
  /\ pc = "F_embedBold"
  /\ \/ /\ Drawable(document, source, now, locale)
        /\ pc' = "F_save"
        /\ pages' = FallbackPages(document, source, now, locale)
        /\ fallbackPath' = PathJoin(pdfsDir, FallbackFileName(document, now))
        /\ UNCHANGED fallbackErr
     \/ /\ ~Drawable(document, source, now, locale)
        /\ pc' = "F_catch"
        /\ fallbackErr' = ErrorAt("drawText")
        /\ UNCHANGED fallbackLocals
     \/ /\ pc' = "F_catch"
        /\ fallbackErr' = ErrorAt("F_embedBold")
        /\ UNCHANGED fallbackLocals
  /\ UNCHANGED <<calls, inputs, now, pdfsDirExists, primaryLocals, err, files,
                 result, counters, log>>

\* const pdfBytes = await pdfDoc.save()
PdfDocSave ==
  /\ FallbackStep("F_save", "F_writeFile")
  /\ UNCHANGED extractions

\* await fs.writeFile(pdfPath, pdfBytes); return pdfPath
FallbackWriteFile ==
  /\ pc = "F_writeFile"
  /\ \/ /\ CanWrite(fallbackPath)
        /\ files' = WriteFile(files, PdfFile(fallbackPath, "pdf-lib", TRUE,
                                             << >>, << >>, pages))
        /\ pc' = "Done"
        /\ result' = [kind |-> "path", path |-> fallbackPath, error |-> NoError]
        /\ UNCHANGED fallbackErr
     \/ /\ pc' = "F_catch"
        /\ fallbackErr' = ErrorAt("F_writeFile")
        /\ UNCHANGED result
        /\ \/ UNCHANGED files
           \/ /\ CanWrite(fallbackPath)
              /\ files' = WriteFile(files, PdfFile(fallbackPath, "pdf-lib", FALSE,
                                                   << >>, << >>, pages))
  /\ UNCHANGED <<calls, inputs, now, pdfsDirExists, primaryLocals, err, counters,
                 fallbackLocals, log>>

FailedCompletely == "PDF generation failed completely: "

\* variant: the catch clause rethrows fallbackErr itself
FallbackCatch_Rethrow ==
  /\ pc = "F_catch"
  /\ log' = Append(log, <<"[PDF] Fallback engine also failed: ">> \o fallbackErr.message)
  /\ pc' = "Done"
  /\ result' = [kind |-> "error", path |-> << >>, error |-> fallbackErr]
  /\ UNCHANGED <<calls, inputs, now, pdfsDirExists, primaryLocals, errors, files,
                 counters, fallbackLocals>>

\* catch (fallbackErr) { console.error(...); throw new Error(`PDF generation
\* failed completely: ${fallbackErr.message}`) }
FallbackCatch ==
  /\ pc = "F_catch"
  /\ log' = Append(log, <<"[PDF] Fallback engine also failed: ">> \o fallbackErr.message)
  /\ pc' = "Done"
  /\ result' = [kind |-> "error", path |-> << >>,
                error |-> [step |-> fallbackErr.step,
                           message |-> <<FailedCompletely>> \o fallbackErr.message]]
  /\ UNCHANGED <<calls, inputs, now, pdfsDirExists, primaryLocals, errors, files,
                 counters, fallbackLocals>>

(***************************************************************************)
(* Calls running side by side: each call c of convertWordToPDF has its own *)
(* position and locals in calls[c]; the clock and the disk are shared.     *)
(* Between the awaits that name and write the artifact a call is followed  *)
(* stage by stage.                                                         *)
(***************************************************************************)
\* what a call running side by side with others leaves alone
singleCall == <<pc, primaryLocals, errors, result, counters, fallbackLocals, log>>

\* convertWordToPDF(...) is called: the primary stage starts
CallConvert(c) ==
  /\ calls[c].pc = "Start"
  /\ calls' = [calls EXCEPT ![c].pc = "Primary"]
  /\ UNCHANGED <<singleCall, inputs, now, pdfsDirExists, files>>

\* the primary stage up to pdfPath = path.join(this.pdfsDir, pdfFileName),
\* or one of its awaits rejects and the catch clause calls the fallback stage
CallPrimaryPath(c) ==
  /\ calls[c].pc = "Primary"
  /\ \/ calls' = [calls EXCEPT ![c].pc = "P_writeFile",
                               ![c].path = PathJoin(pdfsDir, PrimaryFileName(document, now))]
     \/ calls' = [calls EXCEPT ![c].pc = "Fallback"]
  /\ UNCHANGED <<singleCall, inputs, now, pdfsDirExists, files>>

\* await fs.writeFile(pdfPath, pdfBuffer); return pdfPath
CallPrimaryWrite(c) ==
  /\ calls[c].pc = "P_writeFile"
  /\ \/ /\ CanWrite(calls[c].path)
        /\ files' = WriteFile(files, PdfFile(calls[c].path, "puppeteer", TRUE,
                                             << >>, << >>, << >>))
        /\ calls' = [calls EXCEPT ![c].pc = "Done",
                                  ![c].result = [kind |-> "path", path |-> calls[c].path,
                                                 error |-> NoError]]
     \/ /\ calls' = [calls EXCEPT ![c].pc = "Fallback"]
        /\ UNCHANGED files
  /\ UNCHANGED <<singleCall, inputs, now, pdfsDirExists>>

\* the fallback stage up to pdfPath = path.join(this.pdfsDir, pdfFileName),
\* or it raises
CallFallbackPath(c) ==
  /\ calls[c].pc = "Fallback"
  /\ \/ calls' = [calls EXCEPT ![c].pc = "F_writeFile",
                               ![c].path = PathJoin(pdfsDir, FallbackFileName(document, now))]
     \/ calls' = [calls EXCEPT ![c].pc = "Done",
                               ![c].result = [kind |-> "error", path |-> << >>,
                                              error |-> ErrorAt("Fallback")]]
  /\ UNCHANGED <<singleCall, inputs, now, pdfsDirExists, files>>

\* await fs.writeFile(pdfPath, pdfBytes); return pdfPath
CallFallbackWrite(c) ==
  /\ calls[c].pc = "F_writeFile"
  /\ \/ /\ CanWrite(calls[c].path)
        /\ files' = WriteFile(files, PdfFile(calls[c].path, "pdf-lib", TRUE,
                                             << >>, << >>, << >>))
        /\ calls' = [calls EXCEPT ![c].pc = "Done",
                                  ![c].result = [kind |-> "path", path |-> calls[c].path,
                                                 error |-> NoError]]
     \/ /\ calls' = [calls EXCEPT ![c].pc = "Done",
                                  ![c].result = [kind |-> "error", path |-> << >>,
                                                 error |-> ErrorAt("F_writeFile")]]
        /\ UNCHANGED files
  /\ UNCHANGED <<singleCall, inputs, now, pdfsDirExists>>

\* the calls convert the same document (same docNumber and revisionNo)
ConcurrentInit ==
  /\ Init
  /\ controlCopyInfo = NoControlCopy
  /\ source = TextEmpty
  /\ locale = "en-GB"

ConcurrentNext ==
  \/ Tick
  \/ initialize
  \/ \E c \in Calls : CallConvert(c)
  \/ \E c \in Calls : CallPrimaryPath(c)
  \/ \E c \in Calls : CallPrimaryWrite(c)
  \/ \E c \in Calls : CallFallbackPath(c)
  \/ \E c \in Calls : CallFallbackWrite(c)

ConcurrentSpec == ConcurrentInit /\ [][ConcurrentNext]_vars

(***************************************************************************)
(* The specification                                                       *)
(***************************************************************************)
Next ==
  \/ Tick
  \/ initialize
  \/ convertWordToPDF
  \/ FsAccess
  \/ PrimaryReadFile
  \/ ConvertToHtml
  \/ PuppeteerLaunch
  \/ BrowserNewPage
  \/ PageSetContent
  \/ PageEvaluate
  \/ PagePdf
  \/ PrimaryWriteFile
  \/ PrimaryFinally
  \/ CatchPrimary
  \/ ImportPdfLib
  \/ FallbackReadFile
  \/ ExtractRawText
  \/ PDFDocumentCreate
  \/ EmbedFont
  \/ EmbedBoldFont
  \/ PdfDocSave
  \/ FallbackWriteFile
  \/ FallbackCatch

Spec == Init /\ [][Next]_vars

\* every step of the call is eventually taken: the event loop runs each
\* settled await's continuation
FairSpec == Spec /\ WF_vars(Next)

\* one call under the same scheduling, for two documents and one source:
\* which steps follow which does not depend on the other inputs
FairCallInit ==
  /\ Init
  /\ document \in {DocFull, DocRupee}
  /\ controlCopyInfo = NoControlCopy
  /\ source = TextShort
  /\ locale = "en-GB"

FairCallSpec == FairCallInit /\ [][Next]_vars /\ WF_vars(Next)

TypeOK ==
  /\ pc \in {"Start", "P_access", "P_readFile", "P_convertToHtml", "P_launch",
             "P_newPage", "P_setContent", "P_evaluate", "P_pdf", "P_writeFile",
             "P_finally", "Catch", "F_import", "F_readFile", "F_extractRawText",
             "F_create", "F_embedFont", "F_embedBold", "F_save", "F_writeFile",
             "F_catch", "Done"}
  /\ document \in Documents
  /\ controlCopyInfo \in ControlCopies
  /\ source \in Texts
  /\ locale \in Locales
  /\ now \in 0..MaxClock
  /\ pdfsDirExists \in BOOLEAN
  /\ browser \in {"none", "open", "closed", "closeFailed"}
  /\ outcome.kind \in {"none", "return", "throw"}
  /\ result.kind \in {"none", "path", "error"}
  /\ primaryAttempts \in Nat /\ fallbackAttempts \in Nat /\ extractions \in Nat
  /\ \A c \in Calls :
       /\ calls[c].pc \in {"Start", "Primary", "P_writeFile", "Fallback",
                            "F_writeFile", "Done"}
       /\ calls[c].result.kind \in {"none", "path", "error"}

(***************************************************************************)
(* Vocabulary of the properties                                            *)
(***************************************************************************)
PrimaryPcs == {"P_access", "P_readFile", "P_convertToHtml", "P_launch",
               "P_newPage", "P_setContent", "P_evaluate", "P_pdf",
               "P_writeFile", "P_finally"}
FallbackPcs == {"F_import", "F_readFile", "F_extractRawText", "F_create",
                "F_embedFont", "F_embedBold", "F_save", "F_writeFile", "F_catch"}

\* the primary stage has returned control to the coordinator
PrimaryOver == pc \in {"Catch", "Done"} \cup FallbackPcs

\* the steps of the primary stage that read and convert the source file
ExtractionSteps == {"P_access", "P_readFile", "P_convertToHtml"}

\* the state of the coordinator's state machine (section 4.5)
CoordinatorState ==
  IF pc = "Start" THEN "Start"
  ELSE IF pc \in PrimaryPcs THEN "TryPrimary"
  ELSE IF pc \in FallbackPcs \cup {"Catch"} THEN "TryFallback"
  ELSE IF result.kind = "path" THEN "Done" ELSE "Fatal"

CoordinatorEdges ==
  { <<"Start", "TryPrimary">>, <<"TryPrimary", "Done">>,
    <<"TryPrimary", "TryFallback">>, <<"TryFallback", "Done">>,
    <<"TryFallback", "Fatal">> }

\* the artifact (complete file) at path p, if there is one
FilesAt(p) == {f \in files : f.name = p}

\* p is dir/{docNumber}_v{revisionNo}_{tag}_{digits}.pdf, decided by parsing p
HasForm(p, doc, tag) ==
  LET prefix == PathJoin(pdfsDir, doc.docNumber \o <<"_", "v">>
                                    \o TemplateRev(doc.revisionNo) \o tag)
      n == Len(p)
      k == Len(prefix)
  IN /\ n > k + Len(ExtPdf)
     /\ SubSeq(p, 1, k) = prefix
     /\ SubSeq(p, n - Len(ExtPdf) + 1, n) = ExtPdf
     /\ \A i \in (k + 1)..(n - Len(ExtPdf)) : IsDigit(p[i])

(***************************************************************************)
(* C1: every call follows Start -> TryPrimary -> {Done | TryFallback} ->   *)
(* {Done | Fatal}: the primary stage is attempted exactly once, the        *)
(* fallback stage at most once and only after the primary stage raised, no *)
(* stage is re-entered, and a finished call has returned a path or raised. *)
(***************************************************************************)
C1_Counts ==
  /\ primaryAttempts = (IF pc = "Start" THEN 0 ELSE 1)
  /\ fallbackAttempts = (IF pc \in FallbackPcs \/ (pc = "Done" /\ err # NoError)
                         THEN 1 ELSE 0)
  /\ fallbackAttempts = 1 => err # NoError
  /\ pc = "Done" => result.kind \in {"path", "error"}
  /\ pc # "Done" => result = NoResult

C1_Edge ==
  \/ CoordinatorState' = CoordinatorState
  \/ <<CoordinatorState, CoordinatorState'>> \in CoordinatorEdges

C1_StateMachine == [](C1_Counts) /\ [][C1_Edge]_vars

C1_Witness ==
  /\ pc = "Done" /\ result.kind = "path"
  /\ primaryAttempts = 1 /\ fallbackAttempts = 1

C3_BrowserReleased == PrimaryOver => browser # "open"

C3_Witness ==
  /\ pc \in FallbackPcs
  /\ outcome.kind = "throw" /\ outcome.error.step = "P_setContent"
  /\ browser = "closed"

(***************************************************************************)
(* C4 as stated: a failing browser.close() never masks the outcome of the  *)
(* primary stage: if the try block had returned its path, the call returns *)
(* that path and the fallback stage is not run; if the try block had       *)
(* thrown E, the coordinator handles E.                                    *)
(***************************************************************************)
C4_CloseFailureNotMasking ==
  (PrimaryOver /\ browser = "closeFailed")
    => IF outcome.kind = "return"
       THEN /\ pc = "Done" /\ fallbackAttempts = 0
            /\ result.kind = "path" /\ result.path = outcome.path
       ELSE err = outcome.error

(***************************************************************************)
(* C5 as stated: when the call returns a path P, the files it created in   *)
(* the output directory are exactly {P}; a primary stage that raised has   *)
(* left no `final` file behind.                                            *)
(***************************************************************************)
C5_ExactlyOneArtifact ==
  /\ (pc = "Done" /\ result.kind = "path") => {f.name : f \in files} = {result.path}
  /\ (PrimaryOver /\ err # NoError) => \A f \in files : f.engine # "puppeteer"

(***************************************************************************)
(* C6: whatever step of the primary stage raised (launch, setContent,      *)
(* pdf, writeFile, ...), the error reaches the coordinator, which runs the *)
(* fallback stage exactly once; if the fallback stage succeeds the caller  *)
(* receives the fallback path and no error of the primary stage.           *)
(***************************************************************************)
C6_AnyPrimaryFailureFallsBack ==
  (PrimaryOver /\ outcome.kind = "throw")
    => /\ err # NoError
       /\ fallbackAttempts = (IF pc = "Catch" THEN 0 ELSE 1)
       /\ pc = "Done" =>
            \/ /\ result.kind = "path" /\ result.path = fallbackPath
               /\ result.error = NoError /\ fallbackErr = NoError
            \/ /\ result.kind = "error" /\ fallbackErr # NoError
               /\ result.error.step = fallbackErr.step

C6_Witness ==
  /\ pc = "Done" /\ result.kind = "path"
  /\ outcome.kind = "throw" /\ outcome.error.step = "P_writeFile"
  /\ result.path = fallbackPath

(***************************************************************************)
(* C7: the call raises only when both stages have failed; what it raises   *)
(* is one error whose message is "PDF generation failed completely: "      *)
(* followed by the fallback stage's own failure message; the fallback      *)
(* stage is not retried, and the primary stage's error never reaches the   *)
(* caller.                                                                 *)
(***************************************************************************)
C7_TerminalError ==
  (pc = "Done" /\ result.kind = "error")
    => /\ err # NoError
       /\ fallbackErr # NoError
       /\ fallbackAttempts = 1
       /\ result.error.message = <<FailedCompletely>> \o fallbackErr.message
       /\ result.error.message # err.message

C7_Witness ==
  /\ pc = "Done" /\ result.kind = "error"
  /\ err.step = "P_launch" /\ fallbackErr.step = "F_embedFont"

(***************************************************************************)
(* C8 as stated: when controlCopyInfo is supplied, every page of the       *)
(* output carries the marker "CONTROLLED COPY" and the userFullName,       *)
(* whichever renderer produced the artifact; when it is absent, no output  *)
(* contains the marker.                                                    *)
(***************************************************************************)
\* the texts a page of the artifact f carries: the running header and footer
\* of the primary renderer, or what the fallback renderer drew on page i
PageTexts(f, i) ==
  IF f.engine = "puppeteer"
  THEN {f.header[j].value : j \in 1..Len(f.header)}
         \cup {f.footer[j].value : j \in 1..Len(f.footer)}
  ELSE UNION {{h[j].value : j \in 1..Len(h)} :
                h \in {f.pages[i].header[m] : m \in 1..Len(f.pages[i].header)}}
         \cup {f.pages[i].body[j].text : j \in 1..Len(f.pages[i].body)}

\* the pages of f: the primary renderer's pages all carry the same templates
PageIndexes(f) == IF f.engine = "puppeteer" THEN {1} ELSE 1..Len(f.pages)

C8_StampOnEveryPage ==
  \A f \in files :
    f.complete =>
      \A i \in PageIndexes(f) :
        IF controlCopyInfo.present
        THEN /\ \E s \in PageTexts(f, i) : Includes(s, StampMarker)
             /\ \E s \in PageTexts(f, i) : Includes(s, controlCopyInfo.userFullName)
        ELSE \A s \in PageTexts(f, i) : ~Includes(s, StampMarker)

(***************************************************************************)
(* C9: a returned path has the form {docNumber}_v{revisionNo}_final_       *)
(* {timestamp}.pdf exactly when the primary stage wrote the returned file, *)
(* and the form {docNumber}_v{revisionNo}_fallback_{timestamp}.pdf exactly *)
(* when the fallback stage wrote it.                                       *)
(***************************************************************************)
C9_TagNamesTheEngine ==
  (pc = "Done" /\ result.kind = "path")
    => /\ FilesAt(result.path) # {}
       /\ \A f \in FilesAt(result.path) :
            /\ f.complete
            /\ HasForm(result.path, document, TagFinal) <=> f.engine = "puppeteer"
            /\ HasForm(result.path, document, TagFallback) <=> f.engine = "pdf-lib"

C9_Witness ==
  /\ pc = "Done" /\ result.kind = "path"
  /\ document = DocTagged
  /\ \E f \in FilesAt(result.path) : f.engine = "puppeteer"

(***************************************************************************)
(* C10 as stated: the regulated field values the fallback renderer draws   *)
(* (company banner, issue no, date of issue, revision no, date of          *)
(* revision, due date, department, title, doc number, prepared/approved/   *)
(* issued by, status) are the same set of values, with the same text, as   *)
(* getHeaderTemplate and getFooterTemplate produce for the same inputs.    *)
(***************************************************************************)
RegulatedKeys == {"company", "issueNo", "dateOfIssue", "revisionNo",
                  "dateOfRevision", "dueDate", "department", "title",
                  "docNumber", "preparedBy", "approvedBy", "issuedBy", "status"}

\* the regulated fields among the fields a template renders
Regulated(fields) == {fields[i] : i \in {j \in 1..Len(fields) : fields[j].key \in RegulatedKeys}}

C10_HeaderParity ==
  \A f \in files :
    (f.engine = "pdf-lib" /\ f.complete) =>
      \A i \in 1..Len(f.pages) :
        \E t \in 0..MaxClock :
          Regulated(f.pages[i].header[1])
            = Regulated(getHeaderTemplate(document, t)
                          \o getFooterTemplate(document, controlCopyInfo))


(***************************************************************************)
(* C11 as stated: once the primary stage has failed, the fallback stage    *)
(* raises only when one of its awaited calls rejects (the library cannot   *)
(* be loaded, the source cannot be read or yields no text, the output      *)
(* cannot be written); composing the pages from an extracted text and any  *)
(* metadata with non-empty docName and docNumber never raises.             *)
(***************************************************************************)
FallbackAwaits == {"F_import", "F_readFile", "F_extractRawText", "F_create",
                   "F_embedFont", "F_embedBold", "F_save", "F_writeFile"}

C11_FallbackSucceeds ==
  (pc = "F_catch" /\ document.docName # << >> /\ document.docNumber # << >>)
    => fallbackErr.step \in FallbackAwaits


(***************************************************************************)
(* C12 as stated: any two conversions that succeed, of the same docNumber  *)
(* and revisionNo and running side by side (possibly in the same clock     *)
(* millisecond), return distinct artifact paths.                           *)
(***************************************************************************)
C12_PathsDistinct ==
  \A c1, c2 \in Calls :
    (c1 # c2 /\ calls[c1].result.kind = "path" /\ calls[c2].result.kind = "path")
      => calls[c1].result.path # calls[c2].result.path


(***************************************************************************)
(* C13 as stated: in every reachable state each file visible under an      *)
(* artifact name in the output directory holds the complete PDF bytes; a   *)
(* write that fails midway leaves no incomplete file at the artifact path. *)
(***************************************************************************)
C13_NoPartialArtifact == \A f \in files : f.complete

(***************************************************************************)
(* C14 as stated: whenever a stage is about to write its artifact, also    *)
(* in a call made on a fresh instance without initialize, the output       *)
(* directory exists.                                                       *)
(***************************************************************************)
C14_DirectoryOnDemand ==
  pc \in {"P_writeFile", "F_writeFile"} => pdfsDirExists


(***************************************************************************)
(* C15 as stated: a second evaluation of the templates, and of the         *)
(* fallback's header texts, on the call's inputs yields the text blocks    *)
(* the call evaluated earlier, whenever the second evaluation happens.     *)
(***************************************************************************)
C15_TemplatesPure ==
  /\ templates # NoTemplates =>
       /\ templates.header = getHeaderTemplate(document, now)
       /\ templates.footer = getFooterTemplate(document, controlCopyInfo)
  /\ \A i \in 1..Len(pages) : pages[i].header[1] = drawHeader(document, now, locale)

(***************************************************************************)
(* C15, amended: two evaluations on identical inputs yield identical text  *)
(* blocks when dateOfIssue is set or both evaluations fall on the same     *)
(* calendar day (in the same process, hence the same default locale); the  *)
(* footer does not depend on the time of evaluation at all.                *)
(***************************************************************************)
C15_SameDayDeterminism ==
  LET sameDay(t) == document.dateOfIssue # NoDate \/ Today(t) = Today(now)
      header == getHeaderTemplate(document, now)
      drawn == drawHeader(document, now, locale)
  IN /\ \A t \in 0..MaxClock :
          sameDay(t) => /\ getHeaderTemplate(document, t) = header
                        /\ drawHeader(document, t, locale) = drawn
     /\ sameDay(0) =>
          /\ templates # NoTemplates =>
               /\ templates.header = header
               /\ templates.footer = getFooterTemplate(document, controlCopyInfo)
          /\ \A i \in 1..Len(pages) : pages[i].header[1] = drawn

\* the templates were evaluated for a document without dateOfIssue and the
\* clock has moved on within the day
C15_Witness ==
  /\ templates # NoTemplates
  /\ document.dateOfIssue = NoDate
  /\ now > 0 /\ Today(now) = Today(0)
  /\ templates.header = getHeaderTemplate(document, 0)


(***************************************************************************)
(* C16: every call of convertWordToPDF eventually reaches Done (a path     *)
(* returned or the fatal error raised); a call waiting in setContent       *)
(* either goes on with the primary stage or, the wait having ended in a    *)
(* rejection at the timeout, gets to the fallback stage with the browser   *)
(* closed.                                                                 *)
(***************************************************************************)
C16_NoHang ==
  /\ <>(pc = "Done")
  /\ (pc = "P_setContent") ~>
       \/ pc = "P_evaluate"
       \/ /\ pc = "F_import"
          /\ outcome.kind = "throw" /\ outcome.error.step = "P_setContent"
          /\ browser \in {"closed", "closeFailed"}
          /\ fallbackAttempts = 1

C16_Witness ==
  /\ pc = "Done" /\ result.kind = "path"
  /\ outcome.kind = "throw" /\ outcome.error.step = "P_setContent"
  /\ browser = "closed"
  /\ \E f \in FilesAt(result.path) : f.engine = "pdf-lib"


(***************************************************************************)
(* C17: the due-date field of the primary header template and of every     *)
(* header the fallback renderer draws is the literal "N/A" exactly when    *)
(* the document's reviewDueDate is unset.                                  *)
(***************************************************************************)
\* the values a template renders under a key
FieldValues(fields, key) ==
  {fields[i].value : i \in {j \in 1..Len(fields) : fields[j].key = key}}

C17_DueDateNA ==
  /\ templates # NoTemplates =>
       (FieldValues(templates.header, "dueDate") = {StrNA}
          <=> document.reviewDueDate = NoDate)
  /\ \A i \in 1..Len(pages) :
       /\ FieldValues(pages[i].header[1], "dueDate") # {}
       /\ FieldValues(pages[i].header[1], "dueDate") = {StrNA}
            <=> document.reviewDueDate = NoDate

\* one call evaluated both headers for a document without reviewDueDate
C17_Witness ==
  /\ pc = "Done" /\ result.kind = "path"
  /\ document.reviewDueDate = NoDate
  /\ templates # NoTemplates
  /\ \E f \in FilesAt(result.path) :
       /\ f.engine = "pdf-lib"
       /\ FieldValues(f.pages[1].header[1], "dueDate") = {StrNA}


(***************************************************************************)
(* C18 as stated: for every docNumber, also one with path separators or    *)
(* `..` segments, every file a renderer writes and every path a call       *)
(* returns is a direct child of the PDFs output directory.                 *)
(***************************************************************************)
C18_ArtifactContained ==
  /\ \A f \in files : Dirname(f.name) = pdfsDir
  /\ result.kind = "path" => Dirname(result.path) = pdfsDir


(***************************************************************************)
(* C19 as stated: every string the fallback renderer passes to drawText,   *)
(* the body lines and the header strings built from docName, docNumber,    *)
(* headerInfo and issueNo, has only characters of the range 0x20-0x7E.     *)
(***************************************************************************)
\* text matches /^[\x20-\x7E]*$/
PrintableAscii(text) == \A i \in 1..Len(text) : text[i] \notin NonAscii

C19_FontSafe ==
  \A i \in 1..Len(pages) :
    /\ \A j \in 1..Len(pages[i].header[1]) : PrintableAscii(pages[i].header[1][j].value)
    /\ \A j \in 1..Len(pages[i].body) : PrintableAscii(pages[i].body[j].text)

(***************************************************************************)
(* C20: on every page the fallback renderer composes, the first and each   *)
(* added one, the header block is drawn exactly once and before the body   *)
(* lines; the body lines of a page start at y = pageHeight - 170 and go    *)
(* down by 15, each at a y with 150 <= y <= pageHeight - 170; and a page   *)
(* is followed by another exactly when the line after its last one would   *)
(* have been drawn below 150.                                              *)
(***************************************************************************)
C20_Pagination ==
  \A i \in 1..Len(pages) :
    LET body == pages[i].body
        n == Len(body)
    IN /\ Len(pages[i].header) = 1
       /\ pages[i].order = <<"header">> \o [j \in 1..n |-> "line"]
       /\ \A j \in 1..n :
            /\ BreakBelow <= body[j].y /\ body[j].y <= PageHeight - HeaderDrop
            /\ body[j].y = (PageHeight - HeaderDrop) - (j - 1) * LineStep
       /\ i < Len(pages) => (n > 0 /\ body[n].y - LineStep < BreakBelow)
       /\ i > 1 => n > 0

\* a pdf-lib artifact whose text went over the first page
C20_Witness ==
  /\ pc = "Done" /\ result.kind = "path"
  /\ \E f \in FilesAt(result.path) :
       /\ f.engine = "pdf-lib"
       /\ Len(f.pages) = 2
       /\ Len(f.pages[1].body) = LinesPerPage
       /\ Len(f.pages[2].body) = ExtraLines


(***************************************************************************)
(* C21: with L the number of non-blank lines of the extracted text, a page *)
(* holds at most 35 body lines, every page but the last exactly 35, the    *)
(* body lines are the non-blank lines in source order, and the output has  *)
(* max(1, ceil(L / 35)) pages; an empty text gives one page with only the  *)
(* header.                                                                 *)
(***************************************************************************)
C21_PageCount ==
  pages # << >> =>
    LET kept == {i \in 1..Len(source) : ~IsBlank(source[i])}
        L == Cardinality(kept)
        P == IF L = 0 THEN 1 ELSE (L + 34) \div 35
    IN /\ LinesPerPage = 35
       /\ Len(pages) = P
       /\ \A i \in 1..P :
            /\ Len(pages[i].body) <= 35
            /\ i < P => Len(pages[i].body) = 35
       /\ Len(pages[P].body) = L - 35 * (P - 1)
       /\ \A i \in kept :
            LET k == Cardinality({j \in kept : j <= i})
            IN pages[((k - 1) \div 35) + 1].body[((k - 1) % 35) + 1].text
                 = CleanLine(source[i])
       /\ L = 0 => (Len(pages[1].header) = 1 /\ pages[1].order = <<"header">>)

\* a text of more than 35 lines went to two pages, its last line on the second
C21_Witness ==
  /\ pc = "Done" /\ result.kind = "path"
  /\ Len(source) > 35
  /\ \E f \in FilesAt(result.path) :
       /\ f.engine = "pdf-lib"
       /\ Len(f.pages) = 2
       /\ f.pages[2].body[Len(f.pages[2].body)].text = CleanLine(source[Len(source)])


(***************************************************************************)
(* C22 as stated: the drawn body lines, read in order, hold every          *)
(* character of every non-blank extracted line (characters outside         *)
(* 0x20-0x7E replaced by spaces), a long line being spread over as many    *)
(* drawn lines as it needs; no character is dropped.                       *)
(***************************************************************************)
\* the concatenation of the sequences of ss, in order
RECURSIVE Concat(_)
Concat(ss) ==
  IF ss = << >> THEN << >>
  ELSE IF Len(ss) = 1 THEN ss[1]
  ELSE Concat(SubSeq(ss, 1, Len(ss) \div 2))
         \o Concat(SubSeq(ss, (Len(ss) \div 2) + 1, Len(ss)))

\* line.replace(/[^\x20-\x7E]/g, " ") on the whole line
ReplaceNonAscii(line) ==
  [i \in 1..Len(line) |-> IF line[i] \in NonAscii THEN " " ELSE line[i]]

\* the texts of all body lines drawn, page after page
DrawnTexts(pgs) ==
  Concat([i \in 1..Len(pgs) |-> [j \in 1..Len(pgs[i].body) |-> pgs[i].body[j].text]])

C22_WrappingPreservesText ==
  pages # << >> =>
    LET lines == NonBlankLines(source)
    IN Concat(DrawnTexts(pages))
         = Concat([i \in 1..Len(lines) |-> ReplaceNonAscii(lines[i])])


(***************************************************************************)
(* C23 as stated: the header template renders Issue No as issueNo or "01", *)
(* Revision No as revisionNo or 0, Date of Issue as dateOfIssue or the day *)
(* of rendering, and Date of Revision and Due Date of Revision each as     *)
(* "N/A" when the date it is taken from (dateOfIssue for the revision      *)
(* date, reviewDueDate for the due date) is absent, independently of the   *)
(* other.                                                                  *)
(***************************************************************************)
C23_Row2Defaults ==
  templates # NoTemplates =>
    LET h == templates.header
        absentRev == document.revisionNo \in {RevNull, RevUndefined}
    IN /\ FieldValues(h, "issueNo")
            = {IF document.issueNo = << >> THEN <<"0", "1">> ELSE document.issueNo}
       /\ FieldValues(h, "revisionNo")
            = {IF absentRev THEN <<"0">> ELSE NatToStr(document.revisionNo)}
       /\ IF document.dateOfIssue = NoDate
          THEN \E t \in 0..now :
                 FieldValues(h, "dateOfIssue") = {ToLocaleDateString(Today(t), "en-GB")}
          ELSE FieldValues(h, "dateOfIssue")
                 = {ToLocaleDateString(document.dateOfIssue, "en-GB")}
       /\ FieldValues(h, "dateOfRevision") = {StrNA} <=> document.dateOfIssue = NoDate
       /\ FieldValues(h, "dueDate") = {StrNA} <=> document.reviewDueDate = NoDate


(***************************************************************************)
(* C24 as stated: the revision number in the name of an artifact           *)
(* (`_v{revisionNo}_`), written by either renderer, is the revision number *)
(* rendered in the header of that artifact; with revisionNo absent both    *)
(* are 0 and the name contains `_v0_`.                                     *)
(***************************************************************************)
C24_RevisionConsistent ==
  \A f \in files :
    f.complete =>
      LET hdr == IF f.engine = "puppeteer" THEN f.header ELSE f.pages[1].header[1]
          tag == IF f.engine = "puppeteer" THEN TagFinal ELSE TagFallback
      IN \E rev \in FieldValues(hdr, "revisionNo") :
           LET prefix == PathJoin(pdfsDir, document.docNumber \o <<"_", "v">>
                                             \o rev \o tag)
           IN /\ Len(f.name) > Len(prefix)
              /\ SubSeq(f.name, 1, Len(prefix)) = prefix

=============================================================================
